---- MODULE Spec2Model ----
(***************************************************************************)
(* Verification model of the OMPL constraint models of                     *)
(* moveit_planners/ompl/ompl_interface/src/detail/ompl_constraints.cpp and *)
(* its header (src/unnamed/part_000).                                      *)
(*                                                                         *)
(* Numbers.  A double is modelled by an integer count of 5e-6, so that the *)
(* values the code compares against are exact: 1e-5 is 2, the constraint   *)
(* tolerance 1e-4 is 20, equality_constraint_threshold_ 0.001 is 200, 1.0  *)
(* is 200000.  Extents and tolerances are drawn from even counts, so the   *)
(* halving of positionConstraintMsgToBoundVector is exact, as it is for    *)
(* doubles.  +infinity, NaN and "some finite real that is not a count" are *)
(* three reserved values with the IEEE rules the code relies on.           *)
(*                                                                         *)
(* Vectors are tuples indexed from 1 (the code indexes from 0).            *)
(* Descriptions are well formed: every position entry has one BOX          *)
(* primitive with three dimensions and two primitive poses, so that no     *)
(* std::vector::at throws during parsing.                                  *)
(***************************************************************************)
EXTENDS Integers, Sequences, FiniteSets, TLC

VARIABLES
  constraints,    \* the moveit_msgs::Constraints last handed to createOMPLConstraint
  con,            \* the BaseConstraintPtr it returned (NULL: nullptr)
  diag,           \* ROS_WARN / ROS_ERROR diagnostics of that call
  joint_values,   \* argument of the last function / jacobian call
  robot_state,    \* joint positions held by the kinematic state storage
  op,             \* the last operation: "none", "createOMPLConstraint", "function", "jacobian"
  out,            \* the out argument after the last evaluation
  bound,          \* a Bounds value                      (Bounds unit)
  value,          \* the argument of penalty / derivative (Bounds unit)
  pen,            \* result of Bounds::penalty           (Bounds unit)
  der,            \* result of Bounds::derivative        (Bounds unit)
  called,         \* which pure functions have been applied
  pos_con,        \* a moveit_msgs::PositionConstraint   (bound extraction unit)
  bound_vector,   \* result of the bound extraction function applied
  ori_msg,        \* a moveit_msgs::OrientationConstraint (bound extraction unit)
  assigned,       \* indices of out that the last evaluation computed and wrote
  inits,          \* number of init calls the object has received
  first,          \* the first evaluation made on the object (history)
  thread,         \* per worker thread: its position in an evaluation and its data
  storage         \* TSStateStorage: the joint positions of each thread's RobotState

vars == <<constraints, con, diag, joint_values, robot_state, op, out,
          bound, value, pen, der, called, pos_con, bound_vector,
          ori_msg, assigned, inits, first, thread, storage>>

history_vars == <<inits, first, thread, storage>>
lifecycle_vars == <<constraints, con, diag, joint_values, robot_state, op, out,
                    assigned, inits, first, thread, storage>>
bounds_vars == <<bound, value, pen, der>>
extract_vars == <<pos_con, bound_vector, ori_msg>>

(***************************************************************************)
(* Bounds of the model                                                     *)
(***************************************************************************)
\* prismatic joint values range over -MaxCoord .. MaxCoord
MaxCoord == 1
\* arguments of penalty / derivative range over -MaxVal .. MaxVal
MaxVal == 4
\* at most MaxCons entries in position_constraints / orientation_constraints
MaxCons == 2
\* at most MaxInits calls of init on one object
MaxInits == 2
\* number of worker threads that evaluate concurrently
NumThreads == 2

(***************************************************************************)
(* Numbers                                                                 *)
(***************************************************************************)
\* std::numeric_limits<double>::infinity()
Infinity == 1000000000
\* the quiet NaN that 0.0 / 0.0 produces
NaN == 2000000000
\* a finite double that is not a whole count (an irrational matrix entry)
Fin == 1500000000
\* the sentinel -1 of an unconstrained dimension
MinusOne == -200000
\* ompl::magic::CONSTRAINT_PROJECTION_TOLERANCE, what getTolerance() returns
Tolerance == 20
\* double equality_constraint_threshold_{ 0.001 }
equality_constraint_threshold_ == 200
\* pi / 2 and pi, the angles Eigen::AngleAxisd returns for quarter turns
HalfPi == 314159
Pi == 628318

\* x / 2 on doubles
Half(x) ==
  IF x = Infinity THEN Infinity
  ELSE IF x = -Infinity THEN -Infinity
  ELSE x \div 2

\* IEEE product: NaN is absorbing, 0 * finite = 0
Mul(a, b) ==
  IF a = NaN \/ b = NaN THEN NaN
  ELSE IF a = 0 \/ b = 0 THEN 0
  ELSE IF a = Fin \/ b = Fin THEN Fin
  ELSE a * b

\* IEEE sum
Add(a, b) ==
  IF a = NaN \/ b = NaN THEN NaN
  ELSE IF a = Fin \/ b = Fin THEN Fin
  ELSE a + b

Dim == 1..3

(***************************************************************************)
(* struct Bounds                                                           *)
(***************************************************************************)
Bounds(lo, hi) == [lower |-> lo, upper |-> hi]

\* a plausible slip: the distance to the wrong edge when below the interval
penalty_wrong_edge(b, v) ==
  IF v < b.lower THEN b.upper - v
  ELSE IF v > b.upper THEN v - b.upper
  ELSE 0

\* Bounds::penalty
penalty(b, v) ==
  IF v < b.lower THEN b.lower - v
  ELSE IF v > b.upper THEN v - b.upper
  ELSE 0

\* a plausible slip: the boundary counted as a violation
derivative_closed(b, v) ==
  IF v <= b.lower THEN -1
  ELSE IF v >= b.upper THEN 1
  ELSE 0

\* Bounds::derivative
derivative(b, v) ==
  IF v < b.lower THEN -1
  ELSE IF v > b.upper THEN 1
  ELSE 0

(***************************************************************************)
(* Eigen                                                                   *)
(***************************************************************************)
\* Matrix3d::transpose
Transpose(m) == [i \in Dim |-> [j \in Dim |-> m[j][i]]]

\* Matrix3d * Vector3d
MatVec(m, v) ==
  [i \in Dim |-> Add(Add(Mul(m[i][1], v[1]), Mul(m[i][2], v[2])), Mul(m[i][3], v[3]))]

\* Matrix3d * Matrix3d
MatMul(a, b) ==
  [i \in Dim |-> [j \in Dim |->
     Add(Add(Mul(a[i][1], b[1][j]), Mul(a[i][2], b[2][j])), Mul(a[i][3], b[3][j]))]]

\* Matrix3d * (3 x N matrix), N the number of columns of the rows of b
MatMulN(a, b) ==
  [i \in Dim |-> [j \in DOMAIN b[1] |->
     Add(Add(Mul(a[i][1], b[1][j]), Mul(a[i][2], b[2][j])), Mul(a[i][3], b[3][j]))]]

\* Vector3d - Vector3d
VecSub(a, b) == [i \in Dim |-> a[i] - b[i]]

\* scalar * row
Scale(s, row) == [j \in DOMAIN row |-> Mul(s, row[j])]

\* the rotation by k quarter turns about z
RotZ(k) ==
  CASE k % 4 = 0 -> <<<<1, 0, 0>>, <<0, 1, 0>>, <<0, 0, 1>>>>
    [] k % 4 = 1 -> <<<<0, -1, 0>>, <<1, 0, 0>>, <<0, 0, 1>>>>
    [] k % 4 = 2 -> <<<<-1, 0, 0>>, <<0, -1, 0>>, <<0, 0, 1>>>>
    [] k % 4 = 3 -> <<<<0, 1, 0>>, <<-1, 0, 0>>, <<0, 0, 1>>>>

\* the unit quaternions of the model, by name, and the member that has not
\* been assigned (Eigen::Quaterniond has no default initialisation)
Quaternions == {"identity", "z90"}
UninitQuaternion == "uninitialized"

\* Quaterniond::matrix
QuaternionMatrix(quat) ==
  CASE quat = "identity" -> RotZ(0)
    [] quat = "z90" -> RotZ(1)

\* Eigen::AngleAxisd(Matrix3d): angle in [0, pi]; the axis of the identity
\* is (1, 0, 0)
AngleAxis(m) ==
  CASE m = RotZ(0) -> [angle |-> 0, axis |-> <<1, 0, 0>>]
    [] m = RotZ(1) -> [angle |-> HalfPi, axis |-> <<0, 0, 1>>]
    [] m = RotZ(2) -> [angle |-> Pi, axis |-> <<0, 0, 1>>]
    [] m = RotZ(3) -> [angle |-> HalfPi, axis |-> <<0, 0, -1>>]

(***************************************************************************)
(* The kinematics provider: moveit::core::RobotState of a group with two   *)
(* prismatic joints (along x+z, then along x+y) and a final revolute joint *)
(* about z that takes quarter turns.  Link "wrist" is carried by the first *)
(* joint only, link "tool0" by all three.                                  *)
(***************************************************************************)
NumJoints == 3
YawRange == 0..3
JointValues ==
  {<<a, b, d>> : a \in -MaxCoord..MaxCoord, b \in -MaxCoord..MaxCoord, d \in YawRange}
LinkNames == {"tool0", "wrist"}

\* RobotState::getGlobalLinkTransform after setJointGroupPositions
getGlobalLinkTransform(state, link) ==
  IF link = "tool0"
    THEN [translation |-> <<state[1] + state[2], state[2], state[1]>>,
          linear |-> RotZ(state[3])]
    ELSE [translation |-> <<state[1], 0, state[1]>>,
          linear |-> RotZ(0)]

\* RobotState::getJacobian: the 6 x N geometric Jacobian of the link origin
getJacobian(state, link) ==
  IF link = "tool0"
    THEN <<<<1, 1, 0>>, <<0, 1, 0>>, <<1, 0, 0>>,
           <<0, 0, 0>>, <<0, 0, 0>>, <<0, 0, 1>>>>
    ELSE <<<<1, 0, 0>>, <<0, 0, 0>>, <<1, 0, 0>>,
           <<0, 0, 0>>, <<0, 0, 0>>, <<0, 0, 0>>>>

topRows3(m) == <<m[1], m[2], m[3]>>
bottomRows3(m) == <<m[4], m[5], m[6]>>

(***************************************************************************)
(* MoveIt constraint message parsing                                       *)
(***************************************************************************)
\* a plausible slip: orientation-style bounds, the whole extent on each side
positionConstraintMsgToBoundVector_full(pc) ==
  LET dims == [i \in Dim |-> IF pc.dimensions[i] = MinusOne THEN Infinity
                                                            ELSE pc.dimensions[i]]
  IN  <<Bounds(-dims[1], dims[1]), Bounds(-dims[2], dims[2]), Bounds(-dims[3], dims[3])>>

\* positionConstraintMsgToBoundVector
positionConstraintMsgToBoundVector(pc) ==
  LET dims == [i \in Dim |-> IF pc.dimensions[i] = MinusOne THEN Infinity
                                                            ELSE pc.dimensions[i]]
  IN  <<Bounds(Half(-dims[1]), Half(dims[1])),
        Bounds(Half(-dims[2]), Half(dims[2])),
        Bounds(Half(-dims[3]), Half(dims[3]))>>

\* a plausible slip: the tolerance taken as a width and halved, as for boxes
orientationConstraintMsgToBoundVector_half(oc) ==
  LET raw == <<oc.absolute_x_axis_tolerance, oc.absolute_y_axis_tolerance,
               oc.absolute_z_axis_tolerance>>
      dims == [i \in Dim |-> IF raw[i] = MinusOne THEN Infinity ELSE raw[i]]
  IN  <<Bounds(Half(-dims[1]), Half(dims[1])),
        Bounds(Half(-dims[2]), Half(dims[2])),
        Bounds(Half(-dims[3]), Half(dims[3]))>>

\* orientationConstraintMsgToBoundVector
orientationConstraintMsgToBoundVector(oc) ==
  LET raw == <<oc.absolute_x_axis_tolerance, oc.absolute_y_axis_tolerance,
               oc.absolute_z_axis_tolerance>>
      dims == [i \in Dim |-> IF raw[i] = MinusOne THEN Infinity ELSE raw[i]]
  IN  <<Bounds(-dims[1], dims[1]), Bounds(-dims[2], dims[2]), Bounds(-dims[3], dims[3])>>

(***************************************************************************)
(* class BaseConstraint and its four subclasses.  An object is a record of *)
(* the data members; kind is its dynamic type.                             *)
(***************************************************************************)
Unset == <<>>
NULL == [kind |-> "nullptr"]

\* BaseConstraint::BaseConstraint, through the subclass constructor: every
\* vector is empty, the Eigen members are not initialised
Construct(k) ==
  [kind |-> k,
   link_name_ |-> "",
   bounds_ |-> <<>>,
   is_dim_constrained_ |-> <<>>,
   target_position_ |-> Unset,
   start_position_ |-> Unset,
   end_position_ |-> Unset,
   target_orientation_ |-> UninitQuaternion]

\* a plausible slip: the new bounds appended to the ones already held
PositionConstraint_parseConstraintMsg_append(self, msg) ==
  LET pc == msg.position_constraints[1]
  IN  [self EXCEPT
         !.bounds_ = self.bounds_ \o positionConstraintMsgToBoundVector(pc),
         !.target_position_ = pc.primitive_poses[1].position,
         !.target_orientation_ = pc.primitive_poses[1].orientation,
         !.link_name_ = pc.link_name]

\* PositionConstraint::parseConstraintMsg
PositionConstraint_parseConstraintMsg(self, msg) ==
  LET pc == msg.position_constraints[1]
  IN  [self EXCEPT
         !.bounds_ = positionConstraintMsgToBoundVector(pc),
         !.target_position_ = pc.primitive_poses[1].position,
         !.target_orientation_ = pc.primitive_poses[1].orientation,
         !.link_name_ = pc.link_name]

\* a plausible slip: the threshold itself counted as an equality constraint
EqualityClassify_inclusive(dims) ==
  [i \in Dim |-> i <= Len(dims) /\ dims[i] <= equality_constraint_threshold_]

\* the loop of EqualityPositionConstraint::parseConstraintMsg (and of the
\* linear-system variant) that fills is_dim_constrained_
EqualityClassify(dims) ==
  [i \in Dim |-> i <= Len(dims) /\ dims[i] < equality_constraint_threshold_]

\* the ROS_ERROR of that loop: a constrained dimension thinner than the
\* tolerance is reported in the log, and only there
EqualityDiagnostics(dims) ==
  IF \E i \in 1..Len(dims) :
       dims[i] < equality_constraint_threshold_ /\ dims[i] < Tolerance
    THEN {"ERROR: dimension smaller than the tolerance"}
    ELSE {}

\* EqualityPositionConstraint::parseConstraintMsg
EqualityPositionConstraint_parseConstraintMsg(self, msg) ==
  LET pc == msg.position_constraints[1]
  IN  [self EXCEPT
         !.bounds_ = <<>>,
         !.is_dim_constrained_ = EqualityClassify(pc.dimensions),
         !.target_position_ = pc.primitive_poses[1].position,
         !.target_orientation_ = pc.primitive_poses[1].orientation,
         !.link_name_ = pc.link_name]

\* LinearSystemPositionConstraint::parseConstraintMsg
LinearSystemPositionConstraint_parseConstraintMsg(self, msg) ==
  LET pc == msg.position_constraints[1]
  IN  [self EXCEPT
         !.bounds_ = <<>>,
         !.is_dim_constrained_ = EqualityClassify(pc.dimensions),
         !.start_position_ = pc.primitive_poses[1].position,
         !.end_position_ = pc.primitive_poses[2].position,
         !.target_orientation_ = pc.primitive_poses[1].orientation,
         !.link_name_ = pc.link_name]

\* OrientationConstraint::parseConstraintMsg
OrientationConstraint_parseConstraintMsg(self, msg) ==
  LET oc == msg.orientation_constraints[1]
  IN  [self EXCEPT
         !.bounds_ = orientationConstraintMsgToBoundVector(oc),
         !.target_orientation_ = oc.orientation,
         !.link_name_ = oc.link_name]

\* the virtual call self->parseConstraintMsg(msg)
parseConstraintMsg(self, msg) ==
  CASE self.kind = "PositionConstraint" ->
         PositionConstraint_parseConstraintMsg(self, msg)
    [] self.kind = "EqualityPositionConstraint" ->
         EqualityPositionConstraint_parseConstraintMsg(self, msg)
    [] self.kind = "LinearSystemPositionConstraint" ->
         LinearSystemPositionConstraint_parseConstraintMsg(self, msg)
    [] self.kind = "OrientationConstraint" ->
         OrientationConstraint_parseConstraintMsg(self, msg)

\* the diagnostics that parseConstraintMsg logs at warning or error level
parseDiagnostics(self, msg) ==
  IF self.kind \in {"EqualityPositionConstraint", "LinearSystemPositionConstraint"}
    THEN EqualityDiagnostics(msg.position_constraints[1].dimensions)
    ELSE {}

\* BaseConstraint::init
init(self, msg) == parseConstraintMsg(self, msg)

(***************************************************************************)
(* OMPL Constraints Factory                                                *)
(***************************************************************************)
\* a plausible slip: the name tags of the two equality variants exchanged
SelectPositionVariant_swapped(name) ==
  IF name = "use_equality_constraints" THEN "LinearSystemPositionConstraint"
  ELSE IF name = "linear_system_constraints" THEN "EqualityPositionConstraint"
  ELSE "PositionConstraint"

\* the if / else-if chain on constraints.name inside createOMPLConstraint
SelectPositionVariant(name) ==
  IF name = "use_equality_constraints" THEN "EqualityPositionConstraint"
  ELSE IF name = "linear_system_constraints" THEN "LinearSystemPositionConstraint"
  ELSE "PositionConstraint"

\* a plausible slip: a combined description served by its position part
createOMPLConstraint_drop(msg) ==
  LET num_pos_con == Len(msg.position_constraints)
  IN  IF num_pos_con > 0
        THEN [ret |-> init(Construct(SelectPositionVariant(msg.name)), msg),
              log |-> {}]
        ELSE [ret |-> NULL, log |-> {"ERROR: no path constraints"}]

\* createOMPLConstraint: the returned pointer and the diagnostics logged
createOMPLConstraint(msg) ==
  LET num_pos_con == Len(msg.position_constraints)
      num_ori_con == Len(msg.orientation_constraints)
      warn == (IF num_pos_con > 1 THEN {"WARN: only a single position constraint"} ELSE {})
              \cup
              (IF num_ori_con > 1 THEN {"WARN: only a single orientation constraint"} ELSE {})
  IN  IF num_pos_con > 0 /\ num_ori_con > 0
        THEN [ret |-> NULL, log |-> warn \cup {"ERROR: combining not implemented"}]
      ELSE IF num_pos_con > 0
        THEN LET pos_con_ptr == Construct(SelectPositionVariant(msg.name))
             IN  [ret |-> init(pos_con_ptr, msg),
                  log |-> warn \cup parseDiagnostics(pos_con_ptr, msg)]
      ELSE IF num_ori_con > 0
        THEN LET ori_con == Construct("OrientationConstraint")
             IN  [ret |-> init(ori_con, msg),
                  log |-> warn \cup {"ERROR: orientation constraints not yet supported"}]
      ELSE [ret |-> NULL, log |-> warn \cup {"ERROR: no path constraints"}]

(***************************************************************************)
(* Evaluation.  Every kinematics call first overwrites the joint positions *)
(* of the state storage with its argument and then reads from it, so the   *)
(* pose and the Jacobian are those of the argument.                        *)
(***************************************************************************)
\* BaseConstraint::forwardKinematics
forwardKinematics(self, q) == getGlobalLinkTransform(q, self.link_name_)

\* BaseConstraint::robotGeometricJacobian
robotGeometricJacobian(self, q) == getJacobian(q, self.link_name_)

\* the expression R_target^T * (p(q) - p_target) shared by
\* PositionConstraint::calcError and EqualityPositionConstraint::function
PositionError(self, q) ==
  MatVec(Transpose(QuaternionMatrix(self.target_orientation_)),
         VecSub(forwardKinematics(self, q).translation, self.target_position_))

\* the expression R_target^T * J(q).topRows(3) shared by
\* PositionConstraint::calcErrorJacobian and EqualityPositionConstraint::jacobian
PositionErrorJacobian(self, q) ==
  MatMulN(Transpose(QuaternionMatrix(self.target_orientation_)),
          topRows3(robotGeometricJacobian(self, q)))

\* OrientationConstraint::calcError
OrientationConstraint_calcError(self, q) ==
  LET orientation_difference ==
        MatMul(Transpose(forwardKinematics(self, q).linear),
               QuaternionMatrix(self.target_orientation_))
      aa == AngleAxis(orientation_difference)
  IN  [i \in Dim |-> aa.axis[i] * aa.angle]

\* unary minus on doubles
Neg(x) == IF x = NaN \/ x = Fin THEN x ELSE -x

\* angularVelocityToAngleAxis: I - 0.5 r_skew + r_skew r_skew / (t t) * C with
\* C = 1 - 0.5 t sin t / (1 - cos t).  At t = 0 the quotient in C and the
\* quotient by t t are both 0 / 0.
angularVelocityToAngleAxis(angle, axis) ==
  LET t == IF angle < 0 THEN -angle ELSE angle
      skew == <<<<0, -axis[3], axis[2]>>, <<axis[3], 0, -axis[1]>>, <<-axis[2], axis[1], 0>>>>
      skew2 == MatMul(skew, skew)
      C == IF t = 0 THEN NaN ELSE Fin
      identity == RotZ(0)
  IN  [i \in Dim |-> [j \in Dim |->
        Add(Add(identity[i][j],
                Mul(Fin, Mul(angle, skew[i][j]))),
            Mul(IF t = 0 THEN NaN ELSE skew2[i][j], C))]]

\* OrientationConstraint::calcErrorJacobian
OrientationConstraint_calcErrorJacobian(self, q) ==
  LET orientation_difference ==
        MatMul(Transpose(forwardKinematics(self, q).linear),
               QuaternionMatrix(self.target_orientation_))
      aa == AngleAxis(orientation_difference)
      E == angularVelocityToAngleAxis(aa.angle, aa.axis)
      minusE == [i \in Dim |-> [j \in Dim |-> Neg(E[i][j])]]
  IN  MatMulN(minusE, bottomRows3(robotGeometricJacobian(self, q)))

\* the virtual call self->calcError(q) of the two bound-based classes
calcError(self, q) ==
  IF self.kind = "OrientationConstraint"
    THEN OrientationConstraint_calcError(self, q)
    ELSE PositionError(self, q)

\* the virtual call self->calcErrorJacobian(q) of the two bound-based classes
calcErrorJacobian(self, q) ==
  IF self.kind = "OrientationConstraint"
    THEN OrientationConstraint_calcErrorJacobian(self, q)
    ELSE PositionErrorJacobian(self, q)

\* a plausible slip: every component penalised against the first bound
BaseConstraint_function_first(self, q) ==
  LET current_values == calcError(self, q)
  IN  [i \in 1..Len(self.bounds_) |-> penalty(self.bounds_[1], current_values[i])]

\* BaseConstraint::function
BaseConstraint_function(self, q) ==
  LET current_values == calcError(self, q)
  IN  [i \in 1..Len(self.bounds_) |-> penalty(self.bounds_[i], current_values[i])]

\* BaseConstraint::jacobian
BaseConstraint_jacobian(self, q) ==
  LET constraint_error == calcError(self, q)
      robot_jacobian == calcErrorJacobian(self, q)
  IN  [i \in 1..Len(self.bounds_) |->
         Scale(derivative(self.bounds_[i], constraint_error[i]), robot_jacobian[i])]

\* a plausible slip: the equality variant routed through a zero-width penalty
EqualityPositionConstraint_function_abs(self, q) ==
  LET error == PositionError(self, q)
  IN  [dim \in Dim |-> IF self.is_dim_constrained_[dim]
                         THEN penalty(Bounds(0, 0), error[dim])
                         ELSE 0]

\* EqualityPositionConstraint::function
EqualityPositionConstraint_function(self, q) ==
  LET error == PositionError(self, q)
  IN  [dim \in Dim |-> IF self.is_dim_constrained_[dim] THEN error[dim] ELSE 0]

\* EqualityPositionConstraint::jacobian
EqualityPositionConstraint_jacobian(self, q) ==
  LET jac == PositionErrorJacobian(self, q)
  IN  [dim \in Dim |-> IF self.is_dim_constrained_[dim]
                         THEN jac[dim]
                         ELSE [j \in 1..NumJoints |-> 0]]

(***************************************************************************)
(* LinearSystemPositionConstraint.  Its two evaluation functions leave the *)
(* defined behaviour of Eigen, so each is the set of outcomes a build can  *)
(* produce: [op, out, assigned], where op names the call that returned or  *)
(* the signal that ended the process, and assigned is the set of indices   *)
(* of out that hold a value the call computed.                             *)
(***************************************************************************)
\* the number of constraint functions every class passes to
\* ompl::base::Constraint: the size of out
num_cons_ == 3

\* what a double holds that is read without having been written, by two
\* representatives: a harmless value and a NaN
Indeterminate == {0, NaN}

\* the Vector2d residual of LinearSystemPositionConstraint::function for a
\* link position that is already expressed in the target frame
LinearResidual(self, cartesianPosition) ==
  LET start == self.start_position_
      end == self.end_position_
  IN  <<(end[1] - start[1]) * (cartesianPosition[2] - start[2])
          - (end[2] - start[2]) * (cartesianPosition[1] - start[1]),
        (end[2] - start[2]) * (cartesianPosition[3] - start[3])
          - (end[3] - start[3]) * (cartesianPosition[2] - start[2])>>

\* the first statement of LinearSystemPositionConstraint::function
LinearCartesianPosition(self, q) ==
  MatVec(Transpose(QuaternionMatrix(self.target_orientation_)),
         forwardKinematics(self, q).translation)

\* LinearSystemPositionConstraint::function.  out = residual assigns a
\* Vector2d to a Ref of num_cons_ rows, which cannot be resized: with
\* assertions the process aborts, without them num_cons_ coefficients are
\* copied and the last one is read past the end of residual.
LinearSystemPositionConstraint_function(self, q) ==
  LET residual == LinearResidual(self, LinearCartesianPosition(self, q))
  IN  {[op |-> "function", out |-> <<residual[1], residual[2], g>>,
        assigned |-> {1, 2}] : g \in Indeterminate}
      \cup {[op |-> "function: SIGABRT", out |-> <<>>, assigned |-> {}]}

\* the six coefficient writes of LinearSystemPositionConstraint::jacobian in
\* program order, each <<row, column, value>>
dresidual_dcartesianPosition_writes(self) ==
  LET start == self.start_position_
      end == self.end_position_
  IN  <<<<1, 1, start[2] - end[2]>>,
        <<2, 1, 0>>,
        <<1, 2, end[1] - start[1]>>,
        <<2, 2, start[3] - end[3]>>,
        <<1, 2, 0>>,
        <<2, 2, end[2] - start[2]>>>>

\* how many of the writes w go to entry (i, j)
WriteCount(w, i, j) == Cardinality({k \in DOMAIN w : w[k][1] = i /\ w[k][2] = j})

\* what entry (i, j) holds after the writes w: the value of the last write
\* to it, or g if it is never written
AfterWrites(w, i, j, g) ==
  LET ks == {k \in DOMAIN w : w[k][1] = i /\ w[k][2] = j}
  IN  IF ks = {} THEN g
      ELSE w[CHOOSE k \in ks : \A l \in ks : l <= k][3]

\* the 2 x 3 content of dresidual_dcartesianPosition after the six writes,
\* were the matrix to have storage; never-written entries hold g
dresidual_dcartesianPosition(self, g) ==
  LET w == dresidual_dcartesianPosition_writes(self)
  IN  [i \in 1..2 |-> [j \in Dim |-> AfterWrites(w, i, j, g)]]

\* LinearSystemPositionConstraint::jacobian.  out is zeroed; then
\* dresidual_dcartesianPosition, a default-constructed MatrixXd of 0 x 0
\* coefficients, is written through operator(): with assertions the index
\* check aborts the process, without them the first write goes through the
\* null data pointer.  No build reaches out = ... * jac.
LinearSystemPositionConstraint_jacobian(self, q) ==
  LET zero == [i \in 1..num_cons_ |-> [j \in 1..NumJoints |-> 0]]
  IN  {[op |-> "jacobian: SIGABRT", out |-> zero, assigned |-> {}],
       [op |-> "jacobian: SIGSEGV", out |-> zero, assigned |-> {}]}

\* the virtual call self->function(q, out)
function(self, q) ==
  IF self.kind = "EqualityPositionConstraint"
    THEN EqualityPositionConstraint_function(self, q)
    ELSE BaseConstraint_function(self, q)

\* the virtual call self->jacobian(q, out)
jacobian(self, q) ==
  IF self.kind = "EqualityPositionConstraint"
    THEN EqualityPositionConstraint_jacobian(self, q)
    ELSE BaseConstraint_jacobian(self, q)

\* the outcomes of the virtual call self->function(q, out), for all four
\* classes
function_outcomes(self, q) ==
  IF self.kind = "LinearSystemPositionConstraint"
    THEN LinearSystemPositionConstraint_function(self, q)
    ELSE {[op |-> "function", out |-> function(self, q),
           assigned |-> DOMAIN function(self, q)]}

\* the outcomes of the virtual call self->jacobian(q, out), for all four
\* classes
jacobian_outcomes(self, q) ==
  IF self.kind = "LinearSystemPositionConstraint"
    THEN LinearSystemPositionConstraint_jacobian(self, q)
    ELSE {[op |-> "jacobian", out |-> jacobian(self, q),
           assigned |-> DOMAIN jacobian(self, q)]}

(***************************************************************************)
(* The constraint descriptions the factory is called with                  *)
(***************************************************************************)
\* all sequences over S of length lo .. hi
SeqsOf(S, lo, hi) == UNION {[1..k -> S] : k \in lo..hi}

Pose(p, o) == [position |-> p, orientation |-> o]

\* extents of the box: -1, 1e-5, the tolerance, the threshold
Extents == {MinusOne, 2, Tolerance, equality_constraint_threshold_}
\* axis tolerances: -1, 0, 2.0 rad
AxisTolerances == {MinusOne, 0, 400000}
\* name tags: the two recognised ones, the empty one and an unrelated one
Names == {"use_equality_constraints", "linear_system_constraints", "", "box"}

\* link and reference poses of a first position entry
Regions ==
  {[link_name |-> "tool0",
    primitive_poses |-> <<Pose(<<0, 0, 0>>, "identity"), Pose(<<1, 1, 1>>, "identity")>>],
   [link_name |-> "wrist",
    primitive_poses |-> <<Pose(<<1, -1, 0>>, "z90"), Pose(<<0, 1, 0>>, "z90")>>]}

FirstPositionEntries ==
  {[link_name |-> r.link_name, dimensions |-> <<a, b, c>>,
    primitive_poses |-> r.primitive_poses] :
     r \in Regions, a \in Extents, b \in Extents, c \in Extents}

\* the entries that may follow the first one
ExtraPositionEntries ==
  {[link_name |-> "wrist", dimensions |-> <<0, 0, 0>>,
    primitive_poses |-> <<Pose(<<-1, 0, 1>>, "z90"), Pose(<<0, 0, 0>>, "z90")>>]}

FirstOrientationEntries ==
  {[link_name |-> l.link_name, orientation |-> l.orientation,
    absolute_x_axis_tolerance |-> a, absolute_y_axis_tolerance |-> b,
    absolute_z_axis_tolerance |-> c] :
     l \in {[link_name |-> "tool0", orientation |-> "identity"],
            [link_name |-> "wrist", orientation |-> "z90"]},
     a \in AxisTolerances, b \in AxisTolerances, c \in AxisTolerances}

ExtraOrientationEntries ==
  {[link_name |-> "wrist", orientation |-> "identity",
    absolute_x_axis_tolerance |-> 2, absolute_y_axis_tolerance |-> 2,
    absolute_z_axis_tolerance |-> 2]}

PositionLists ==
  {<<f>> \o rest : f \in FirstPositionEntries,
                   rest \in SeqsOf(ExtraPositionEntries, 0, MaxCons - 1)}

OrientationLists ==
  {<<f>> \o rest : f \in FirstOrientationEntries,
                   rest \in SeqsOf(ExtraOrientationEntries, 0, MaxCons - 1)}

Msg(n, p, o) == [name |-> n, position_constraints |-> p, orientation_constraints |-> o]

\* position only, orientation only, both populated, neither populated
Descriptions ==
  {Msg(n, p, <<>>) : n \in Names, p \in PositionLists}
  \cup {Msg(n, <<>>, o) : n \in Names, o \in OrientationLists}
  \cup {Msg(n, p, o) : n \in Names,
                       p \in SeqsOf(ExtraPositionEntries, 1, MaxCons),
                       o \in SeqsOf(ExtraOrientationEntries, 1, MaxCons)}
  \cup {Msg(n, <<>>, <<>>) : n \in Names}

NoDescription == Msg("", <<>>, <<>>)
NoJointValues == <<0, 0, 0>>

(***************************************************************************)
(* Specification of the factory and of evaluation                          *)
(***************************************************************************)
BoundsIdle ==
  /\ bound = Bounds(0, 0) /\ value = 0 /\ pen = 0 /\ der = 0
Threads == 1..NumThreads
NoEvaluation == [op |-> "none", q |-> NoJointValues, out |-> <<>>]
\* a thread that is not inside function or jacobian.  pc is its position,
\* which and q the call it makes, calls the kinematics calls still to make,
\* seen the joint positions its kinematics reads found in the RobotState,
\* raced whether another thread set other joint positions between one of its
\* own sets and the read that followed
IdleThread ==
  [pc |-> "idle", which |-> "none", q |-> NoJointValues, calls |-> 0,
   seen |-> {}, raced |-> FALSE, out |-> <<>>]

ExtractIdle ==
  /\ pos_con = [dimensions |-> <<0, 0, 0>>] /\ bound_vector = <<>>
  /\ ori_msg = [absolute_x_axis_tolerance |-> 0, absolute_y_axis_tolerance |-> 0,
                absolute_z_axis_tolerance |-> 0]
HistoryIdle ==
  /\ inits = 0 /\ first = NoEvaluation
  /\ thread = [t \in Threads |-> IdleThread]
  /\ storage = [t \in Threads |-> NoJointValues]
LifecycleIdle ==
  /\ constraints = NoDescription /\ con = NULL /\ diag = {}
  /\ joint_values = NoJointValues /\ robot_state = NoJointValues
  /\ op = "none" /\ out = <<>> /\ assigned = {}
  /\ HistoryIdle

Init ==
  /\ LifecycleIdle
  /\ BoundsIdle
  /\ ExtractIdle
  /\ called = {}

\* a planning request arrives: createOMPLConstraint(robot_model, group, msg)
CreateOMPLConstraint(msg) ==
  /\ op = "none"
  /\ LET r == createOMPLConstraint(msg)
     IN  /\ constraints' = msg
         /\ con' = r.ret
         /\ diag' = r.log
  /\ op' = "createOMPLConstraint"
  /\ out' = <<>>
  /\ assigned' = {}
  /\ UNCHANGED <<joint_values, robot_state, history_vars>>
  /\ UNCHANGED <<bounds_vars, extract_vars, called>>

\* the planner calls con->function(q, out)
Function(q) ==
  /\ op = "createOMPLConstraint"
  /\ con.kind \in {"PositionConstraint", "OrientationConstraint",
                   "EqualityPositionConstraint"}
  /\ joint_values' = q
  /\ robot_state' = q
  /\ op' = "function"
  /\ out' = function(con, q)
  /\ assigned' = DOMAIN out'
  /\ UNCHANGED <<constraints, con, diag, history_vars>>
  /\ UNCHANGED <<bounds_vars, extract_vars, called>>

\* the planner calls con->jacobian(q, out)
Jacobian(q) ==
  /\ op = "createOMPLConstraint"
  /\ con.kind \in {"PositionConstraint", "OrientationConstraint",
                   "EqualityPositionConstraint"}
  /\ joint_values' = q
  /\ robot_state' = q
  /\ op' = "jacobian"
  /\ out' = jacobian(con, q)
  /\ assigned' = DOMAIN out'
  /\ UNCHANGED <<constraints, con, diag, history_vars>>
  /\ UNCHANGED <<bounds_vars, extract_vars, called>>

Next ==
  \/ \E msg \in Descriptions : CreateOMPLConstraint(msg)
  \/ \E q \in JointValues : Function(q)
  \/ \E q \in JointValues : Jacobian(q)

Spec == Init /\ [][Next]_vars

(***************************************************************************)
(* Specification of struct Bounds: a bound and a value are drawn, then     *)
(* penalty and derivative are applied to them.  Bounds with lower > upper  *)
(* are drawn too: the struct has no constructor that rejects them.         *)
(***************************************************************************)
LowerEdges == {-Infinity} \cup (-(MaxVal - 1)..(MaxVal - 1))
UpperEdges == (-(MaxVal - 1)..(MaxVal - 1)) \cup {Infinity}

InitBounds ==
  /\ LifecycleIdle
  /\ ExtractIdle
  /\ called = {}
  /\ bound \in {Bounds(lo, hi) : lo \in LowerEdges, hi \in UpperEdges}
  /\ value \in -MaxVal..MaxVal
  /\ pen = 0
  /\ der = 0

\* bound.penalty(value)
Penalty ==
  /\ "penalty" \notin called
  /\ pen' = penalty(bound, value)
  /\ called' = called \cup {"penalty"}
  /\ UNCHANGED <<bound, value, der>>
  /\ UNCHANGED <<lifecycle_vars, extract_vars>>

\* bound.derivative(value)
Derivative ==
  /\ "derivative" \notin called
  /\ der' = derivative(bound, value)
  /\ called' = called \cup {"derivative"}
  /\ UNCHANGED <<bound, value, pen>>
  /\ UNCHANGED <<lifecycle_vars, extract_vars>>

NextBounds ==
  \/ Penalty
  \/ Derivative

SpecBounds == InitBounds /\ [][NextBounds]_vars

(***************************************************************************)
(* Specification of bound extraction: the dimensions of a box are drawn,   *)
(* then positionConstraintMsgToBoundVector is applied to them.             *)
(***************************************************************************)
\* -1, a negative extent, 0, 1e-5, the tolerance, the threshold, 2.0
BoxExtents == {MinusOne, -4, 0, 2, Tolerance, equality_constraint_threshold_, 400000}

InitExtract ==
  /\ LifecycleIdle
  /\ BoundsIdle
  /\ called = {}
  /\ pos_con \in {[dimensions |-> <<a, b, c>>] :
                    a \in BoxExtents, b \in BoxExtents, c \in BoxExtents}
  /\ bound_vector = <<>>
  /\ ori_msg = [absolute_x_axis_tolerance |-> 0, absolute_y_axis_tolerance |-> 0,
                absolute_z_axis_tolerance |-> 0]

\* positionConstraintMsgToBoundVector(pos_con)
PositionConstraintMsgToBoundVector ==
  /\ "positionConstraintMsgToBoundVector" \notin called
  /\ bound_vector' = positionConstraintMsgToBoundVector(pos_con)
  /\ called' = called \cup {"positionConstraintMsgToBoundVector"}
  /\ UNCHANGED <<pos_con, ori_msg>>
  /\ UNCHANGED <<lifecycle_vars, bounds_vars>>

NextExtract ==
  \/ PositionConstraintMsgToBoundVector

SpecExtract == InitExtract /\ [][NextExtract]_vars

(***************************************************************************)
(* Specification of orientation bound extraction: three axis tolerances    *)
(* are drawn, then orientationConstraintMsgToBoundVector is applied.       *)
(***************************************************************************)
\* -1, a negative tolerance, 0, 1e-5, the projection tolerance, 2.0 rad
AxisToleranceValues == {MinusOne, -4, 0, 2, Tolerance, 400000}

InitOriExtract ==
  /\ LifecycleIdle
  /\ BoundsIdle
  /\ called = {}
  /\ pos_con = [dimensions |-> <<0, 0, 0>>]
  /\ bound_vector = <<>>
  /\ ori_msg \in {[absolute_x_axis_tolerance |-> a, absolute_y_axis_tolerance |-> b,
                    absolute_z_axis_tolerance |-> c] :
                    a \in AxisToleranceValues, b \in AxisToleranceValues,
                    c \in AxisToleranceValues}

\* orientationConstraintMsgToBoundVector(ori_msg)
OrientationConstraintMsgToBoundVector ==
  /\ "orientationConstraintMsgToBoundVector" \notin called
  /\ bound_vector' = orientationConstraintMsgToBoundVector(ori_msg)
  /\ called' = called \cup {"orientationConstraintMsgToBoundVector"}
  /\ UNCHANGED <<pos_con, ori_msg>>
  /\ UNCHANGED <<lifecycle_vars, bounds_vars>>

NextOriExtract ==
  \/ OrientationConstraintMsgToBoundVector

SpecOriExtract == InitOriExtract /\ [][NextOriExtract]_vars

(***************************************************************************)
(* Properties of struct Bounds (checked under SpecBounds)                  *)
(***************************************************************************)
Inside(b, v) == b.lower <= v /\ v <= b.upper

\* C1: for every Bounds with lower <= upper and every value v, penalty(v) is
\* the distance outside the interval: 0 when lower <= v <= upper (the two
\* boundaries included), lower - v > 0 when v < lower, v - upper > 0 when
\* v > upper; so penalty(v) >= 0, and penalty(v) = 0 exactly when v is inside.
C1_PenaltyIsDistanceOutside ==
  ("penalty" \in called /\ bound.lower <= bound.upper) =>
     /\ Inside(bound, value) => pen = 0
     /\ value < bound.lower => (pen = bound.lower - value /\ pen > 0)
     /\ value > bound.upper => (pen = value - bound.upper /\ pen > 0)
     /\ pen >= 0
     /\ pen = 0 <=> Inside(bound, value)

\* a value below a proper interval has been penalised
C1_Witness ==
  /\ "penalty" \in called
  /\ bound.lower < bound.upper
  /\ bound.lower # -Infinity
  /\ value < bound.lower
  /\ pen = bound.lower - value

\* C2: for every Bounds and every value v, derivative(v) is the sign of the
\* violation: -1 when v < lower, +1 when v > upper, 0 when lower <= v <= upper,
\* also when v equals lower or upper.
C2_DerivativeIsSign ==
  ("derivative" \in called /\ bound.lower <= bound.upper) =>
     /\ value < bound.lower => der = -1
     /\ value > bound.upper => der = 1
     /\ Inside(bound, value) => der = 0
     /\ value = bound.lower => der = 0
     /\ value = bound.upper => der = 0

\* the derivative has been taken exactly on the lower boundary
C2_Witness ==
  /\ "derivative" \in called
  /\ bound.lower < bound.upper
  /\ value = bound.lower
  /\ der = 0

(***************************************************************************)
(* Properties of bound extraction (checked under SpecExtract)              *)
(***************************************************************************)
\* C10: positionConstraintMsgToBoundVector returns exactly three Bounds in
\* x, y, z order; on each axis an extent of -1 gives (-inf, +inf) and any
\* other extent d gives (-d/2, d/2), so 2.0 gives (-1.0, 1.0); the bound of
\* an axis is determined by the extent of that axis alone.
C10_PositionBoundVector ==
  ("positionConstraintMsgToBoundVector" \in called) =>
     /\ Len(bound_vector) = 3
     /\ \A i \in Dim :
          LET d == pos_con.dimensions[i]
          IN  /\ d = MinusOne => bound_vector[i] = Bounds(-Infinity, Infinity)
              /\ d # MinusOne => /\ 2 * bound_vector[i].upper = d
                                 /\ 2 * bound_vector[i].lower = -d
              /\ d = 400000 => bound_vector[i] = Bounds(-200000, 200000)

\* a box with one unconstrained axis and one axis of extent 2.0 was converted
C10_Witness ==
  /\ "positionConstraintMsgToBoundVector" \in called
  /\ pos_con.dimensions[1] = MinusOne
  /\ pos_con.dimensions[2] = 400000
  /\ bound_vector[1] = Bounds(-Infinity, Infinity)
  /\ bound_vector[2] = Bounds(-200000, 200000)

(***************************************************************************)
(* Properties of the factory and of evaluation (checked under Spec)        *)
(***************************************************************************)
BoundBased == {"PositionConstraint", "OrientationConstraint"}
ZeroRow == [j \in 1..NumJoints |-> 0]
NumPos == Len(constraints.position_constraints)
NumOri == Len(constraints.orientation_constraints)
Created == op # "none"

\* C3: for an initialized Bounded Position or Orientation constraint,
\* function writes out[i] = bounds[i].penalty(e[i]) for each of the three
\* dimensions, e = calcError(jointValues); so the residual is all zero exactly
\* when every error component lies within its bound, a violated component is
\* strictly positive and equal to its distance from the bound, and a link
\* exactly at the target gives [0, 0, 0] when every bound contains the origin.
C3_FunctionIsPenaltyOfError ==
  (op = "function" /\ con.kind \in BoundBased) =>
     LET e == calcError(con, joint_values)
         b == con.bounds_
     IN  /\ Len(out) = 3
         /\ \A i \in Dim :
              /\ out[i] = penalty(b[i], e[i])
              /\ Inside(b[i], e[i]) => out[i] = 0
              /\ e[i] < b[i].lower => (out[i] = b[i].lower - e[i] /\ out[i] > 0)
              /\ e[i] > b[i].upper => (out[i] = e[i] - b[i].upper /\ out[i] > 0)
         /\ (out = <<0, 0, 0>>) <=> (\A i \in Dim : Inside(b[i], e[i]))
         /\ ( /\ con.kind = "PositionConstraint"
              /\ getGlobalLinkTransform(joint_values, con.link_name_).translation
                   = con.target_position_
              /\ \A i \in Dim : Inside(b[i], 0) )
            => out = <<0, 0, 0>>

\* a bounded position constraint was evaluated where one dimension is
\* violated and another is within its (different) bound
C3_Witness ==
  /\ op = "function"
  /\ con.kind = "PositionConstraint"
  /\ \E i, j \in Dim :
       /\ out[i] > 0
       /\ out[j] = 0
       /\ con.bounds_[i] # con.bounds_[j]
       /\ calcError(con, joint_values)[j] # 0

\* C4: for an initialized Bounded Position or Orientation constraint,
\* jacobian writes row i as bounds[i].derivative(e[i]) times row i of
\* calcErrorJacobian(jointValues); every row whose error component is inside
\* its bound (boundary included) is all zero, and a row whose error is below
\* the lower bound is the negated row of the error Jacobian.
C4_JacobianIsDerivativeTimesRow ==
  (op = "jacobian" /\ con.kind \in BoundBased) =>
     LET e == calcError(con, joint_values)
         J == calcErrorJacobian(con, joint_values)
         b == con.bounds_
     IN  /\ Len(out) = 3
         /\ \A i \in Dim :
              /\ out[i] = Scale(derivative(b[i], e[i]), J[i])
              /\ Inside(b[i], e[i]) => out[i] = ZeroRow
              /\ e[i] < b[i].lower => out[i] = [j \in 1..NumJoints |-> Neg(J[i][j])]

FromFirstPositionEntry(k) ==
  LET pc == constraints.position_constraints[1]
      base == [Construct(k) EXCEPT
                 !.link_name_ = pc.link_name,
                 !.target_orientation_ = pc.primitive_poses[1].orientation]
  IN  CASE k = "PositionConstraint" ->
             [base EXCEPT
                !.target_position_ = pc.primitive_poses[1].position,
                !.bounds_ = [i \in Dim |->
                   IF pc.dimensions[i] = MinusOne
                     THEN Bounds(-Infinity, Infinity)
                     ELSE Bounds((-pc.dimensions[i]) \div 2, pc.dimensions[i] \div 2)]]
        [] k = "EqualityPositionConstraint" ->
             [base EXCEPT
                !.target_position_ = pc.primitive_poses[1].position,
                !.is_dim_constrained_ =
                   [i \in Dim |-> pc.dimensions[i] < equality_constraint_threshold_]]
        [] k = "LinearSystemPositionConstraint" ->
             [base EXCEPT
                !.start_position_ = pc.primitive_poses[1].position,
                !.end_position_ = pc.primitive_poses[2].position,
                !.is_dim_constrained_ =
                   [i \in Dim |-> pc.dimensions[i] < equality_constraint_threshold_]]

ErrorOfFirstEntry ==
  LET pc == constraints.position_constraints[1]
      p == getGlobalLinkTransform(joint_values, pc.link_name).translation
      t == pc.primitive_poses[1].position
      d == <<p[1] - t[1], p[2] - t[2], p[3] - t[3]>>
  IN  IF pc.primitive_poses[1].orientation = "identity"
        THEN d
        ELSE <<d[2], -d[1], d[3]>>

\* the rows of R_target^T J_top for the description's first entry
ErrorJacobianOfFirstEntry ==
  LET pc == constraints.position_constraints[1]
      J == getJacobian(joint_values, pc.link_name)
  IN  IF pc.primitive_poses[1].orientation = "identity"
        THEN <<J[1], J[2], J[3]>>
        ELSE <<J[2], [j \in 1..NumJoints |-> -J[1][j]], J[3]>>

\* C7: for an initialized Equality Position constraint and every joint
\* configuration, function emits for each dimension the raw error component
\* (sign preserved, no penalty) when the dimension is constrained and exactly
\* 0 when it is free; jacobian emits the error-Jacobian row for a constrained
\* dimension and an all-zero row for a free one.
C7_EqualityEmitsRawError ==
  (con.kind = "EqualityPositionConstraint") =>
     /\ op = "function" =>
          /\ Len(out) = 3
          /\ \A d \in Dim :
               out[d] = IF con.is_dim_constrained_[d] THEN ErrorOfFirstEntry[d] ELSE 0
          /\ con.is_dim_constrained_ = <<FALSE, TRUE, FALSE>> =>
               (out[2] = ErrorOfFirstEntry[2] /\ out[1] = 0 /\ out[3] = 0)
     /\ op = "jacobian" =>
          /\ Len(out) = 3
          /\ \A d \in Dim :
               out[d] = IF con.is_dim_constrained_[d]
                          THEN ErrorJacobianOfFirstEntry[d]
                          ELSE ZeroRow

\* only y is constrained, the error is negative in y and non-zero in x, and
\* function returned the negative y error and zeros elsewhere
C7_Witness ==
  /\ op = "function"
  /\ con.kind = "EqualityPositionConstraint"
  /\ con.is_dim_constrained_ = <<FALSE, TRUE, FALSE>>
  /\ ErrorOfFirstEntry[2] < 0
  /\ ErrorOfFirstEntry[1] # 0
  /\ out = <<0, ErrorOfFirstEntry[2], 0>>

\* C8: at initialization of an Equality Position constraint each dimension
\* is classified on its own: dimension i is constrained if and only if its
\* extent is strictly below the threshold 0.001 (an extent equal to 0.001 is
\* free), whatever the other extents are, and the mask has exactly 3 entries.
C8_EqualityClassification ==
  (Created /\ con.kind = "EqualityPositionConstraint") =>
     /\ Len(con.is_dim_constrained_) = 3
     /\ \A i \in Dim :
          con.is_dim_constrained_[i]
            <=> (constraints.position_constraints[1].dimensions[i] < 200)

\* an extent equal to the threshold was classified free next to a thinner
\* one that was classified constrained
C8_Witness ==
  /\ op = "createOMPLConstraint"
  /\ con.kind = "EqualityPositionConstraint"
  /\ constraints.position_constraints[1].dimensions = <<200, Tolerance, 200>>
  /\ con.is_dim_constrained_ = <<FALSE, TRUE, FALSE>>

\* C9: when an Equality Position or Linear-System constraint is initialized
\* from a description with an extent below the evaluator's tolerance, the
\* factory does not hand back a usable constraint in which that dimension
\* was accepted as equality-constrained.
C9_ThinExtentIsRejected ==
  (Created /\ NumPos > 0 /\ NumOri = 0
     /\ constraints.name \in {"use_equality_constraints", "linear_system_constraints"}) =>
     ~ \E i \in Dim :
         /\ constraints.position_constraints[1].dimensions[i] < Tolerance
         /\ con # NULL
         /\ con.is_dim_constrained_[i]

(***************************************************************************)
(* Specification of two-phase construction: an object of one of the four   *)
(* classes is constructed, then init is called on it up to MaxInits times  *)
(* with descriptions that carry the entry its class parses.                *)
(***************************************************************************)
Kinds == {"PositionConstraint", "EqualityPositionConstraint",
          "LinearSystemPositionConstraint", "OrientationConstraint"}

\* the descriptions whose first entry parseConstraintMsg of class k reads
InitDescriptions(k) ==
  IF k = "OrientationConstraint"
    THEN {Msg("", <<>>, o) : o \in OrientationLists}
    ELSE {Msg("", p, <<>>) : p \in PositionLists}

InitConstruct ==
  /\ constraints = NoDescription
  /\ con \in {Construct(k) : k \in Kinds}
  /\ diag = {}
  /\ joint_values = NoJointValues /\ robot_state = NoJointValues
  /\ op = "construct" /\ out = <<>> /\ assigned = {}
  /\ HistoryIdle
  /\ BoundsIdle
  /\ ExtractIdle
  /\ called = {}

\* con->init(msg)
InitCall(msg) ==
  /\ inits < MaxInits
  /\ constraints' = msg
  /\ con' = init(con, msg)
  /\ diag' = parseDiagnostics(con, msg)
  /\ inits' = inits + 1
  /\ op' = "init"
  /\ UNCHANGED <<joint_values, robot_state, out, assigned, first, thread, storage>>
  /\ UNCHANGED <<bounds_vars, extract_vars, called>>

NextInit ==
  \/ \E msg \in InitDescriptions(con.kind) : InitCall(msg)

SpecInit == InitConstruct /\ [][NextInit]_vars

(***************************************************************************)
(* Specification of the Linear-System variant: the factory has returned an *)
(* object for a line from start to end, and it is evaluated once.          *)
(***************************************************************************)
\* start points of the line
LineStarts == {<<0, 0, 0>>, <<1, 0, -1>>}
\* end points of the line
LineEnds ==
  {<<a, b, c>> : a \in -MaxCoord..MaxCoord, b \in -MaxCoord..MaxCoord,
                 c \in -MaxCoord..MaxCoord}

LinearDescriptions ==
  {Msg("linear_system_constraints",
       <<[link_name |-> "tool0",
          dimensions |-> <<Tolerance, Tolerance, equality_constraint_threshold_>>,
          primitive_poses |-> <<Pose(start, o), Pose(end, o)>>]>>,
       <<>>) : start \in LineStarts, end \in LineEnds, o \in Quaternions}

InitLinear ==
  /\ constraints \in LinearDescriptions
  /\ con = createOMPLConstraint(constraints).ret
  /\ diag = createOMPLConstraint(constraints).log
  /\ joint_values = NoJointValues /\ robot_state = NoJointValues
  /\ op = "createOMPLConstraint" /\ out = <<>> /\ assigned = {}
  /\ HistoryIdle
  /\ BoundsIdle
  /\ ExtractIdle
  /\ called = {}

\* con->function(q, out) on a LinearSystemPositionConstraint
LinearFunction(q) ==
  /\ op = "createOMPLConstraint"
  /\ con.kind = "LinearSystemPositionConstraint"
  /\ joint_values' = q
  /\ robot_state' = q
  /\ \E r \in LinearSystemPositionConstraint_function(con, q) :
        /\ op' = r.op
        /\ out' = r.out
        /\ assigned' = r.assigned
  /\ UNCHANGED <<constraints, con, diag, history_vars>>
  /\ UNCHANGED <<bounds_vars, extract_vars, called>>

\* con->jacobian(q, out) on a LinearSystemPositionConstraint
LinearJacobian(q) ==
  /\ op = "createOMPLConstraint"
  /\ con.kind = "LinearSystemPositionConstraint"
  /\ joint_values' = q
  /\ robot_state' = q
  /\ \E r \in LinearSystemPositionConstraint_jacobian(con, q) :
        /\ op' = r.op
        /\ out' = r.out
        /\ assigned' = r.assigned
  /\ UNCHANGED <<constraints, con, diag, history_vars>>
  /\ UNCHANGED <<bounds_vars, extract_vars, called>>

NextLinear ==
  \/ \E q \in JointValues : LinearFunction(q)
  \/ \E q \in JointValues : LinearJacobian(q)

SpecLinear == InitLinear /\ [][NextLinear]_vars

(***************************************************************************)
(* Specification of repeated evaluation: the factory has returned an       *)
(* object of one of the four classes, and function and jacobian are called *)
(* on it any number of times from one thread, that is, on one RobotState.  *)
(* first keeps the first evaluation that was made.                         *)
(***************************************************************************)
EvalPositionEntry ==
  [link_name |-> "tool0", dimensions |-> <<2, Tolerance, MinusOne>>,
   primitive_poses |-> <<Pose(<<0, 0, 0>>, "identity"), Pose(<<1, 1, 1>>, "identity")>>]

EvalOrientationEntries ==
  {[link_name |-> "tool0", orientation |-> o,
    absolute_x_axis_tolerance |-> 2, absolute_y_axis_tolerance |-> MinusOne,
    absolute_z_axis_tolerance |-> 400000] : o \in Quaternions}

\* one description for each position class, two for the orientation class
EvalDescriptions ==
  {Msg(n, <<EvalPositionEntry>>, <<>>) :
     n \in {"", "use_equality_constraints", "linear_system_constraints"}}
  \cup {Msg("", <<>>, <<o>>) : o \in EvalOrientationEntries}

\* the joint values of repeated evaluation: the first joint and the yaw
\* joint vary, so that both the position and the orientation of tool0 do
EvalPoints == {<<a, 0, d>> : a \in -MaxCoord..MaxCoord, d \in 0..1}

InitEval ==
  /\ constraints \in EvalDescriptions
  /\ con = createOMPLConstraint(constraints).ret
  /\ diag = createOMPLConstraint(constraints).log
  /\ joint_values = NoJointValues /\ robot_state = NoJointValues
  /\ op = "createOMPLConstraint" /\ out = <<>> /\ assigned = {}
  /\ HistoryIdle
  /\ BoundsIdle
  /\ ExtractIdle
  /\ called = {}

\* the process is alive and the object can be evaluated
Alive == op \in {"createOMPLConstraint", "function", "jacobian"}

\* con->function(q, out), once more
EvalFunction(q) ==
  /\ Alive
  /\ joint_values' = q
  /\ robot_state' = q
  /\ \E r \in function_outcomes(con, q) :
        /\ op' = r.op
        /\ out' = r.out
        /\ assigned' = r.assigned
        /\ first' = IF first.op = "none" THEN [op |-> r.op, q |-> q, out |-> r.out]
                                         ELSE first
  /\ UNCHANGED <<constraints, con, diag, inits, thread, storage>>
  /\ UNCHANGED <<bounds_vars, extract_vars, called>>

\* con->jacobian(q, out), once more
EvalJacobian(q) ==
  /\ Alive
  /\ joint_values' = q
  /\ robot_state' = q
  /\ \E r \in jacobian_outcomes(con, q) :
        /\ op' = r.op
        /\ out' = r.out
        /\ assigned' = r.assigned
        /\ first' = IF first.op = "none" THEN [op |-> r.op, q |-> q, out |-> r.out]
                                         ELSE first
  /\ UNCHANGED <<constraints, con, diag, inits, thread, storage>>
  /\ UNCHANGED <<bounds_vars, extract_vars, called>>

NextEval ==
  \/ \E q \in EvalPoints : EvalFunction(q)
  \/ \E q \in EvalPoints : EvalJacobian(q)

SpecEval == InitEval /\ [][NextEval]_vars

(***************************************************************************)
(* Specification of concurrent evaluation: NumThreads worker threads call  *)
(* function and jacobian on one object.  Every forwardKinematics and       *)
(* robotGeometricJacobian call is two steps that interleave with the steps *)
(* of the other threads: setJointGroupPositions on the RobotState that     *)
(* getStateStorage returns, then the read of the pose or Jacobian from it. *)
(***************************************************************************)
\* a plausible slip: one RobotState shared by all threads
getStateStorage_shared(t) == 1

\* TSStateStorage::getStateStorage: the RobotState that belongs to the
\* calling thread
getStateStorage(t) == t

\* how many times an evaluation calls forwardKinematics or
\* robotGeometricJacobian
KinematicsCalls(self, which) ==
  IF which = "function" THEN 1
  ELSE IF self.kind = "PositionConstraint" THEN 2
  ELSE IF self.kind = "OrientationConstraint" THEN 3
  ELSE 1

\* the outcomes of the evaluation which when its kinematics reads the joint
\* positions s
Outcomes(self, which, s) ==
  IF which = "function" THEN function_outcomes(self, s) ELSE jacobian_outcomes(self, s)

\* the joint values the threads evaluate at
ConcPoints == {<<0, 0, 0>>, <<1, 0, 1>>}

InitConc ==
  /\ constraints \in EvalDescriptions
  /\ con = createOMPLConstraint(constraints).ret
  /\ diag = createOMPLConstraint(constraints).log
  /\ joint_values = NoJointValues /\ robot_state = NoJointValues
  /\ op = "createOMPLConstraint" /\ out = <<>> /\ assigned = {}
  /\ HistoryIdle
  /\ BoundsIdle
  /\ ExtractIdle
  /\ called = {}

\* thread t enters con->function(q, out) or con->jacobian(q, out)
Call(t, which, q) ==
  /\ Alive
  /\ thread[t].pc = "idle"
  /\ thread' = [thread EXCEPT ![t] =
                  [pc |-> "set", which |-> which, q |-> q,
                   calls |-> KinematicsCalls(con, which),
                   seen |-> {}, raced |-> FALSE, out |-> <<>>]]
  /\ UNCHANGED <<constraints, con, diag, joint_values, robot_state, op, out,
                 assigned, inits, first, storage>>
  /\ UNCHANGED <<bounds_vars, extract_vars, called>>

\* thread t: getStateStorage() and setJointGroupPositions(joint_values)
SetJointGroupPositions(t) ==
  /\ Alive
  /\ thread[t].pc = "set"
  /\ storage' = [storage EXCEPT ![getStateStorage(t)] = thread[t].q]
  /\ thread' = [u \in Threads |->
                  IF u = t THEN [thread[t] EXCEPT !.pc = "read"]
                  ELSE IF thread[u].pc = "read" /\ thread[u].q # thread[t].q
                    THEN [thread[u] EXCEPT !.raced = TRUE]
                    ELSE thread[u]]
  /\ UNCHANGED <<constraints, con, diag, joint_values, robot_state, op, out,
                 assigned, inits, first>>
  /\ UNCHANGED <<bounds_vars, extract_vars, called>>

\* thread t: getGlobalLinkTransform or getJacobian on its RobotState; after
\* the last kinematics call the evaluation computes out and returns, or
\* ends the process
ReadKinematics(t) ==
  /\ Alive
  /\ thread[t].pc = "read"
  /\ LET seen == thread[t].seen \cup {storage[getStateStorage(t)]}
     IN  IF thread[t].calls > 1
           THEN /\ thread' = [thread EXCEPT ![t].pc = "set",
                                            ![t].calls = thread[t].calls - 1,
                                            ![t].seen = seen]
                /\ op' = op
           ELSE \E s \in seen : \E r \in Outcomes(con, thread[t].which, s) :
                  /\ thread' = [thread EXCEPT ![t].pc = "done",
                                              ![t].calls = 0,
                                              ![t].seen = seen,
                                              ![t].out = r.out]
                  /\ op' = IF r.op \in {"function", "jacobian"} THEN op ELSE r.op
  /\ UNCHANGED <<constraints, con, diag, joint_values, robot_state, out,
                 assigned, inits, first, storage>>
  /\ UNCHANGED <<bounds_vars, extract_vars, called>>

\* thread t has used its result and is ready for another evaluation
Return(t) ==
  /\ Alive
  /\ thread[t].pc = "done"
  /\ thread' = [thread EXCEPT ![t] = IdleThread]
  /\ UNCHANGED <<constraints, con, diag, joint_values, robot_state, op, out,
                 assigned, inits, first, storage>>
  /\ UNCHANGED <<bounds_vars, extract_vars, called>>

NextConc ==
  \/ \E t \in Threads, which \in {"function", "jacobian"}, q \in ConcPoints :
        Call(t, which, q)
  \/ \E t \in Threads : SetJointGroupPositions(t)
  \/ \E t \in Threads : ReadKinematics(t)
  \/ \E t \in Threads : Return(t)

SpecConc == InitConc /\ [][NextConc]_vars

C12_NoInvertedBounds ==
  ("positionConstraintMsgToBoundVector" \in called) =>
     \A i \in DOMAIN bound_vector : bound_vector[i].lower <= bound_vector[i].upper

(***************************************************************************)
(* Properties of two-phase construction (checked under SpecInit)           *)
(***************************************************************************)
\* C13, as stated: in every reachable state of an object, after construction
\* and after any sequence of init calls, for every variant, bounds_ has the
\* declared output dimension, 3, as its length.
C13_BoundSetLengthAlwaysThree == Len(con.bounds_) = 3

\* C13, amended: bounds_ has length 3 exactly in the states where the object
\* is of a bound-based class (Bounded Position, Orientation) and init has
\* been called; before the first init it is empty for every class, and an
\* Equality or Linear-System object keeps it empty after every init and
\* holds a mask of 3 dimensions instead.
C13_BoundSetLength ==
  /\ inits = 0 => Len(con.bounds_) = 0
  /\ (inits > 0 /\ con.kind \in {"PositionConstraint", "OrientationConstraint"})
        => Len(con.bounds_) = 3
  /\ (inits > 0 /\ con.kind \in {"EqualityPositionConstraint",
                                 "LinearSystemPositionConstraint"})
        => /\ Len(con.bounds_) = 0
           /\ Len(con.is_dim_constrained_) = 3

\* a Bounded Position object that init was called on twice holds 3 bounds
C13_Witness ==
  /\ inits = 2
  /\ con.kind = "PositionConstraint"
  /\ Len(con.bounds_) = 3

\* C14: an object is initialized exactly once: once init has been called, a
\* further init call (with whatever description) leaves its link name, its
\* bounds, its dimension mask and its target pose unchanged.
C14_InitializedExactlyOnce ==
  [][(inits >= 1 /\ inits' = inits + 1) =>
        /\ con'.link_name_ = con.link_name_
        /\ con'.bounds_ = con.bounds_
        /\ con'.is_dim_constrained_ = con.is_dim_constrained_
        /\ con'.target_position_ = con.target_position_
        /\ con'.target_orientation_ = con.target_orientation_
        /\ con'.start_position_ = con.start_position_
        /\ con'.end_position_ = con.end_position_]_vars

(***************************************************************************)
(* Properties of the Linear-System variant (checked under SpecLinear)      *)
(***************************************************************************)
Evaluated == op \notin {"none", "construct", "init", "createOMPLConstraint"}

\* C17: once the object is initialized, every call of function returns with
\* exactly num_cons_ = 3 components of out, and every call of jacobian with
\* exactly 3 rows, each of the 3 components or rows having been assigned by
\* the call (for every variant, the Linear-System one included).
C17_EveryComponentAssigned ==
  Evaluated =>
     /\ op \in {"function", "jacobian"}
     /\ Len(out) = num_cons_
     /\ assigned = 1..num_cons_

\* C18: the Linear-System jacobian uses a 2 x 3 map D of which each of the
\* six entries is assigned exactly once, row 0 = [start.y - end.y,
\* end.x - start.x, 0] and row 1 = [0, start.z - end.z, end.y - start.y],
\* and D is the exact derivative of the residual of function:
\* residual(p + d) - residual(p) = D . d for every position p and
\* displacement d.
C18_LinearJacobianMap ==
  (con.kind = "LinearSystemPositionConstraint"
     /\ op \in {"jacobian", "jacobian: SIGABRT", "jacobian: SIGSEGV"}) =>
     LET w == dresidual_dcartesianPosition_writes(con)
         start == con.start_position_
         end == con.end_position_
         p == LinearCartesianPosition(con, joint_values)
     IN  /\ op = "jacobian"
         /\ \A i \in 1..2, j \in Dim : WriteCount(w, i, j) = 1
         /\ \A g \in Indeterminate :
              LET D == dresidual_dcartesianPosition(con, g)
              IN  /\ D = <<<<start[2] - end[2], end[1] - start[1], 0>>,
                           <<0, start[3] - end[3], end[2] - start[2]>>>>
                  /\ \A d \in LineEnds :
                       LET r1 == LinearResidual(con, [i \in Dim |-> p[i] + d[i]])
                           r0 == LinearResidual(con, p)
                       IN  \A i \in 1..2 :
                             r1[i] - r0[i] =
                               Add(Add(Mul(D[i][1], d[1]), Mul(D[i][2], d[2])),
                                   Mul(D[i][3], d[3]))

\* p lies on the line through a and b: (b - a) x (p - a) = 0
OnLine(p, a, b) ==
  /\ (b[2] - a[2]) * (p[3] - a[3]) - (b[3] - a[3]) * (p[2] - a[2]) = 0
  /\ (b[3] - a[3]) * (p[1] - a[1]) - (b[1] - a[1]) * (p[3] - a[3]) = 0
  /\ (b[1] - a[1]) * (p[2] - a[2]) - (b[2] - a[2]) * (p[1] - a[1]) = 0

\* C19: for a line with start # end and the identity target orientation,
\* the residual that function computes is all zero exactly when the link
\* position lies on the line through start and end.
C19_ResidualZeroIffOnLine ==
  (con.kind = "LinearSystemPositionConstraint" /\ op = "function"
     /\ con.start_position_ # con.end_position_
     /\ con.target_orientation_ = "identity") =>
     ((out[1] = 0 /\ out[2] = 0)
        <=> OnLine(forwardKinematics(con, joint_values).translation,
                   con.start_position_, con.end_position_))

(***************************************************************************)
(* Properties of the orientation singularity (checked under Spec)          *)
(***************************************************************************)
\* C20: the Orientation Jacobian is never undefined at the singularity: when
\* the link orientation equals the target (rotation angle theta = 0), the
\* conversion matrix of angularVelocityToAngleAxis, the error Jacobian and
\* the rows that jacobian writes contain no NaN and no infinity.
C20_NoUndefinedAtSingularity ==
  (op = "jacobian" /\ con.kind = "OrientationConstraint") =>
     LET aa == AngleAxis(MatMul(Transpose(forwardKinematics(con, joint_values).linear),
                                QuaternionMatrix(con.target_orientation_)))
         E == angularVelocityToAngleAxis(aa.angle, aa.axis)
         J == calcErrorJacobian(con, joint_values)
         Undefined == {NaN, Infinity, -Infinity}
     IN  aa.angle = 0 =>
           /\ \A i \in Dim, j \in Dim : E[i][j] \notin Undefined
           /\ \A i \in Dim, j \in 1..NumJoints : J[i][j] \notin Undefined
           /\ \A i \in DOMAIN out, j \in 1..NumJoints : out[i][j] \notin Undefined

(***************************************************************************)
(* Properties of repeated evaluation (checked under SpecEval)              *)
(***************************************************************************)
\* C15: evaluation is idempotent and history-independent: function (and
\* jacobian) called again with the joint values of the first call returns
\* the result of the first call, whatever was evaluated in between on the
\* same RobotState; and evaluation changes no field of the object, which
\* stays what init made of the description.
C15_EvaluationIsIdempotent ==
  /\ (Evaluated /\ op = first.op /\ joint_values = first.q) => out = first.out
  /\ Evaluated => con = init(Construct(con.kind), constraints)

(***************************************************************************)
(* Properties of concurrent evaluation (checked under SpecConc)            *)
(***************************************************************************)
\* C16: under every interleaving of the set-joint-positions and read steps
\* of the threads, each thread works on the RobotState keyed by its own
\* identity: between its set and its read that RobotState holds its own
\* joint values, every pose or Jacobian it reads is that of its own joint
\* values and never that of another thread's, and the result it returns is
\* a result of the same evaluation made sequentially.
C16_ThreadsAreIsolated ==
  \A t \in Threads :
     /\ thread[t].pc = "read" => storage[t] = thread[t].q
     /\ thread[t].seen \subseteq {thread[t].q}
     /\ thread[t].pc = "done" =>
          \E r \in Outcomes(con, thread[t].which, thread[t].q) : r.out = thread[t].out

\* thread 1 has returned the Jacobian of its own joint values although
\* thread 2 set other joint values between a set and a read of thread 1 and
\* is itself about to read
C16_Witness ==
  /\ con.kind = "PositionConstraint"
  /\ thread[1].pc = "done"
  /\ thread[1].which = "jacobian"
  /\ thread[1].raced
  /\ thread[1].out = jacobian(con, thread[1].q)
  /\ thread[2].pc = "read"
  /\ thread[2].q # thread[1].q

====
